---------------------------- MODULE Spec2Model ----------------------------
(***************************************************************************)
(* A model of the long-running-task crate: TaskPool (src/src/lib.rs) with  *)
(* its operations insert, retrieve, progress and complete, the purge of    *)
(* expired completed tasks, the Handle ownership discipline, and the       *)
(* monotonic clock read by complete.                                       *)
(*                                                                         *)
(* The pool's fields are the variables pending, completed and lifespan.    *)
(* Each operation of the pool is an operator over a pool record            *)
(* [pending, completed, lifespan], written after the Rust code, and an     *)
(* action that applies it to the variables.  The remaining variables are   *)
(* the environment (clock, handles held by callers, identifiers handed     *)
(* out) and a record of what the callers have observed.                    *)
(***************************************************************************)
EXTENDS Integers, FiniteSets, Sequences, TLC

\* ------------------------------------------------------------ bounds

\* number of insert calls explored
MaxTasks == 2
\* largest clock value explored (Instant, in abstract time units)
MaxTime == 1
\* largest lifespan a pool is built with
MaxLifespan == 1
\* the `total` field of an inserted Progress value
MaxTotal == 1
\* progress calls are explored until a task is one call past the cap
MaxCalls == MaxTotal + 1
\* number of distinct result values of type V
MaxValue == 2
\* width of usize in the model (bits); the progress counters are usize
UsizeBits == 4
\* progress calls made on one task when the counter is followed to its wrap
MaxAdvance == 3

\* ------------------------------------------------------------ data

\* Option<T>: None is the empty tuple, Some(x) the one-element tuple.
None == << >>
Some(x) == << x >>

\* The identifier space (Uuid).  One identifier more than the tasks inserted,
\* so that some identifier is never returned by insert.
Uuids == 1 .. (MaxTasks + 1)

\* Result values (type parameter V).
Values == 1 .. MaxValue

\* Progress values (type parameter P): the crate's own test type and the
\* example server's type, struct Progress { progress, total }.
Progresses == [progress : 0 .. MaxTotal, total : {MaxTotal}]

\* usize::MAX, and every Progress value the struct can hold.
UsizeMax == 2^UsizeBits - 1
UsizeProgresses == [progress : 0 .. UsizeMax, total : 0 .. UsizeMax]

\* Option<Duration> given to with_lifespan.
Lifespans == {None} \cup {Some(l) : l \in 0 .. MaxLifespan}

\* TaskState<V, P>
Pending(p) == [tag |-> "Pending", p |-> p]
Done(v) == [tag |-> "Done", v |-> v]

\* The last operation returned nothing to observe.
Idle == [op |-> "idle"]

Min(a, b) == IF a <= b THEN a ELSE b

\* HashMap::insert, HashMap::remove, HashMap::retain on a map held as a function;
\* retain is given the set of keys whose entries satisfy its predicate.
MapInsert(m, k, v) == [x \in (DOMAIN m) \cup {k} |-> IF x = k THEN v ELSE m[x]]
MapRemove(m, k) == [x \in (DOMAIN m) \ {k} |-> m[x]]
MapRetain(m, keep) == [x \in (DOMAIN m) \cap keep |-> m[x]]

\* Instant::duration_since: the time elapsed, zero when `earlier` is later.
DurationSince(later, earlier) == IF later >= earlier THEN later - earlier ELSE 0

\* ------------------------------------------------------------ state

VARIABLES
    pending,      \* TaskPool.pending: Uuid -> P
    completed,    \* TaskPool.completed: Uuid -> (Instant, V)
    lifespan,     \* TaskPool.lifespan: Option<Duration>
    now,          \* the monotonic clock, Instant::now()
    handles,      \* identifiers of the Handles callers hold (not yet consumed)
    issued,       \* identifiers returned by insert so far
    panicked,     \* an operation reached unreachable!() and aborted
    last,         \* the insert or retrieve call made last and what it returned,
                  \* or Idle when progress or complete came after it
    initial,      \* for a pending task: the progress value given to insert
    calls,        \* for a pending task: the number of progress calls made
    given,        \* for a completed task: the value given to complete
    seen,         \* for an issued identifier: what its retrieves returned so far
    purged        \* identifiers removed from completed by the purge

vars == << pending, completed, lifespan, now, handles, issued, panicked, last,
           initial, calls, given, seen, purged >>

\* The pool as one value, as the operations below take and return it.
Pool == [pending |-> pending, completed |-> completed, lifespan |-> lifespan]

\* ------------------------------------------------------------ operations

\* usize `+`: the sum the machine keeps when overflow checks are off, and
\* whether the sum overflows (a panic when overflow checks are on).
WrappingAdd(a, b) == (a + b) % (UsizeMax + 1)
Overflows(a, b) == a + b > UsizeMax

\* Progressible::progress of struct Progress:
\* self.progress = (self.progress + 1).min(self.total)
ProgressStep(p) == [p EXCEPT !.progress = Min(WrappingAdd(p.progress, 1), p.total)]

\* Uuid::new_v4(): a random 122-bit identifier.  The uuid crate's contract,
\* and the crate's own assumption, is that a new identifier differs from
\* every identifier generated before.  The pool only compares identifiers for
\* equality, so which unused identifier is drawn is immaterial and the model
\* draws the least one; Retrieve below is still tried with every identifier,
\* issued or not, in every state.
\* (variant: a generator that may repeat an identifier)
NewV4Any(used) == Uuids
NewV4(used) == {u \in Uuids \ used : \A w \in Uuids \ used : u <= w}

\* TaskPool::default().with_lifespan(l)
Default == [pending |-> << >>, completed |-> << >>, lifespan |-> None]
with_lifespan(self, l) == [self EXCEPT !.lifespan = l]

\* TaskPool::insert: stores the progress value under the new identifier.
\* (variant: the new entry takes the place of the pending ones)
insertReplaces(self, uuid, p) ==
    [self EXCEPT !.pending = MapInsert(<< >>, uuid, p)]
insert(self, uuid, p) ==
    [self EXCEPT !.pending = MapInsert(self.pending, uuid, p)]

\* TaskPool::retrieve: the pool afterwards and the value returned.
\* (variant: reads the completed entry without removing it)
retrieveKeeps(self, uuid) ==
    IF uuid \in DOMAIN self.pending
    THEN [self |-> self, ret |-> Some(Pending(self.pending[uuid]))]
    ELSE [self |-> self,
          ret  |-> IF uuid \in DOMAIN self.completed
                   THEN Some(Done(self.completed[uuid][2]))
                   ELSE None]
\* (variant: entries that outlived the lifespan are dropped on the way in)
retrievePurges(self, uuid) ==
    LET live == [self EXCEPT !.completed =
                    MapRetain(self.completed,
                        {u \in DOMAIN self.completed :
                            self.lifespan # None =>
                                DurationSince(now, self.completed[u][1]) < self.lifespan[1]})]
    IN  IF uuid \in DOMAIN live.pending
        THEN [self |-> live, ret |-> Some(Pending(live.pending[uuid]))]
        ELSE [self |-> [live EXCEPT !.completed = MapRemove(live.completed, uuid)],
              ret  |-> IF uuid \in DOMAIN live.completed
                       THEN Some(Done(live.completed[uuid][2]))
                       ELSE None]
\* (variant: takes the pending entry out instead of cloning it)
retrieveTakesPending(self, uuid) ==
    IF uuid \in DOMAIN self.pending
    THEN [self |-> [self EXCEPT !.pending = MapRemove(self.pending, uuid)],
          ret  |-> Some(Pending(self.pending[uuid]))]
    ELSE [self |-> [self EXCEPT !.completed = MapRemove(self.completed, uuid)],
          ret  |-> IF uuid \in DOMAIN self.completed
                   THEN Some(Done(self.completed[uuid][2]))
                   ELSE None]
retrieve(self, uuid) ==
    IF uuid \in DOMAIN self.pending
    THEN [self |-> self, ret |-> Some(Pending(self.pending[uuid]))]
    ELSE [self |-> [self EXCEPT !.completed = MapRemove(self.completed, uuid)],
          ret  |-> IF uuid \in DOMAIN self.completed
                   THEN Some(Done(self.completed[uuid][2]))
                   ELSE None]

\* TaskPool::progress: the pool afterwards, and whether unreachable!() was hit.
\* (variant: advances a copy, the stored value stays)
\* (variant: every pending entry is advanced)
progressAll(self, uuid) ==
    IF uuid \in DOMAIN self.pending
    THEN [self  |-> [self EXCEPT !.pending =
                        [u \in DOMAIN self.pending |-> ProgressStep(self.pending[u])]],
          panic |-> FALSE]
    ELSE [self |-> self, panic |-> TRUE]
\* (variant: a missing entry is skipped without a word)
progressIgnoresMissing(self, uuid) ==
    IF uuid \in DOMAIN self.pending
    THEN [self  |-> [self EXCEPT !.pending[uuid] = ProgressStep(self.pending[uuid])],
          panic |-> FALSE]
    ELSE [self |-> self, panic |-> FALSE]
progressOnClone(self, uuid) ==
    [self |-> self, panic |-> uuid \notin DOMAIN self.pending]
progress(self, uuid) ==
    IF uuid \in DOMAIN self.pending
    THEN [self  |-> [self EXCEPT !.pending[uuid] = ProgressStep(self.pending[uuid])],
          panic |-> FALSE]
    ELSE [self |-> self, panic |-> TRUE]

\* TaskPool::progress in a build with overflow checks (the debug profile): the
\* addition inside P::progress panics instead of wrapping, before the write.
progressChecked(self, uuid) ==
    IF uuid \in DOMAIN self.pending /\ Overflows(self.pending[uuid].progress, 1)
    THEN [self |-> self, panic |-> TRUE]
    ELSE progress(self, uuid)

\* TaskPool::purge_expired_tasks, with `t` the clock value it reads.
\* (variants: no lifespan taken as zero; pending cleared too; age = lifespan
\* kept; the retain condition inverted)
purgeAlways(self, t) ==
    [self EXCEPT !.completed =
        MapRetain(self.completed,
            {u \in DOMAIN self.completed :
                DurationSince(t, self.completed[u][1]) <
                    (IF self.lifespan # None THEN self.lifespan[1] ELSE 0)})]
purgePendingToo(self, t) ==
    IF self.lifespan # None
    THEN [self EXCEPT !.completed =
            MapRetain(self.completed,
                {u \in DOMAIN self.completed :
                    DurationSince(t, self.completed[u][1]) < self.lifespan[1]}),
            !.pending = << >>]
    ELSE self
purgeInclusive(self, t) ==
    IF self.lifespan # None
    THEN [self EXCEPT !.completed =
            MapRetain(self.completed,
                {u \in DOMAIN self.completed :
                    DurationSince(t, self.completed[u][1]) <= self.lifespan[1]})]
    ELSE self
purgeInverted(self, t) ==
    IF self.lifespan # None
    THEN [self EXCEPT !.completed =
            MapRetain(self.completed,
                {u \in DOMAIN self.completed :
                    DurationSince(t, self.completed[u][1]) >= self.lifespan[1]})]
    ELSE self
purge_expired_tasks(self, t) ==
    IF self.lifespan # None
    THEN [self EXCEPT !.completed =
            MapRetain(self.completed,
                {u \in DOMAIN self.completed :
                    DurationSince(t, self.completed[u][1]) < self.lifespan[1]})]
    ELSE self

\* TaskPool::complete.  The clock is read twice: t1 by the purge, t2 (not
\* earlier) for the timestamp of the new entry.
\* (variants: the pending entry is not removed; the purge runs after the
\* insert; the surviving entries get the new timestamp as well)
completeRestamps(self, uuid, value, t1, t2) ==
    LET a == [self EXCEPT !.pending = MapRemove(self.pending, uuid)]
        b == purge_expired_tasks(a, t1)
        c == MapInsert(b.completed, uuid, << t2, value >>)
    IN  [b EXCEPT !.completed = [u \in DOMAIN c |-> << t2, c[u][2] >>]]
completeKeepsPending(self, uuid, value, t1, t2) ==
    LET b == purge_expired_tasks(self, t1)
    IN  [b EXCEPT !.completed = MapInsert(b.completed, uuid, << t2, value >>)]
completePurgesLast(self, uuid, value, t1, t2) ==
    LET a == [self EXCEPT !.pending = MapRemove(self.pending, uuid)]
        b == [a EXCEPT !.completed = MapInsert(a.completed, uuid, << t1, value >>)]
    IN  purge_expired_tasks(b, t2)
complete(self, uuid, value, t1, t2) ==
    LET a == [self EXCEPT !.pending = MapRemove(self.pending, uuid)]
        b == purge_expired_tasks(a, t1)
    IN  [b EXCEPT !.completed = MapInsert(b.completed, uuid, << t2, value >>)]

\* tests::get_inner_size: pool.pending.len() + pool.completed.len()
get_inner_size(self) ==
    Cardinality(DOMAIN self.pending) + Cardinality(DOMAIN self.completed)

\* ------------------------------------------------------------ actions

\* TaskPool::default().with_lifespan(l), and nothing done with it yet
InitWith(l) ==
    /\ \E p \in {with_lifespan(Default, l)} :
          /\ pending = p.pending
          /\ completed = p.completed
          /\ lifespan = p.lifespan
    /\ now = 0
    /\ handles = {}
    /\ issued = {}
    /\ panicked = FALSE
    /\ last = Idle
    /\ initial = << >>
    /\ calls = << >>
    /\ given = << >>
    /\ seen = << >>
    /\ purged = {}

Init == \E l \in Lifespans : InitWith(l)

\* let (handle, uuid) = pool.insert(p)
Insert(p) ==
    /\ ~panicked
    /\ Cardinality(issued) < MaxTasks
    /\ \E uuid \in NewV4(issued) :
          \E q \in {insert(Pool, uuid, p)} :
              /\ pending' = q.pending
              /\ completed' = q.completed
              /\ lifespan' = q.lifespan
              /\ handles' = handles \cup {uuid}
              /\ issued' = issued \cup {uuid}
              /\ last' = [op |-> "insert", uuid |-> uuid, ret |-> None]
              /\ initial' = MapInsert(initial, uuid, p)
              /\ calls' = MapInsert(calls, uuid, 0)
              /\ seen' = MapInsert(seen, uuid, "P")
    /\ UNCHANGED << now, panicked, given, purged >>

\* What the retrieves of an issued identifier have returned: "P" only Pending
\* (or nothing) so far, "D" a Done, "N" a None without a Done before it.
SeenAfter(s, ret) ==
    IF ret = None THEN (IF s = "D" THEN "D" ELSE "N")
    ELSE IF ret[1].tag = "Done" THEN "D"
    ELSE s

\* pool.retrieve(&uuid), by any caller, with any identifier
Retrieve(uuid) ==
    /\ ~panicked
    /\ \E r \in {retrieve(Pool, uuid)} :
           /\ pending' = r.self.pending
           /\ completed' = r.self.completed
           /\ lifespan' = r.self.lifespan
           /\ last' = [op |-> "retrieve", uuid |-> uuid, ret |-> r.ret]
           /\ seen' = IF uuid \in issued
                      THEN [seen EXCEPT ![uuid] = SeenAfter(seen[uuid], r.ret)]
                      ELSE seen
    /\ UNCHANGED << now, handles, issued, panicked, initial, calls, given, purged >>

\* pool.progress(&handle), by the holder of the handle
ProgressAny(h) ==
    /\ ~panicked
    /\ h \in handles
    /\ \E r \in {progress(Pool, h), progressChecked(Pool, h)} :
           /\ pending' = r.self.pending
           /\ completed' = r.self.completed
           /\ lifespan' = r.self.lifespan
           /\ panicked' = r.panic
    /\ last' = Idle
    /\ calls' = IF h \in DOMAIN calls THEN [calls EXCEPT ![h] = @ + 1] ELSE calls
    /\ UNCHANGED << now, handles, issued, initial, given, seen, purged >>

\* ... explored until the task is one call past its cap
Progress(h) ==
    /\ h \in DOMAIN calls => initial[h].progress + calls[h] < MaxCalls
    /\ ProgressAny(h)

\* pool.complete(handle, value), by the holder of the handle, which it consumes.
\* Time may pass between the two clock reads.
Complete(h, value) ==
    /\ ~panicked
    /\ h \in handles
    /\ \E t2 \in now .. Min(now + 1, MaxTime) :
          \E q \in {complete(Pool, h, value, now, t2)} :
              /\ pending' = q.pending
              /\ completed' = q.completed
              /\ lifespan' = q.lifespan
              /\ now' = t2
              /\ purged' = purged \cup
                    {u \in DOMAIN completed : u # h /\ u \notin DOMAIN q.completed}
    /\ handles' = handles \ {h}
    /\ last' = Idle
    /\ initial' = MapRemove(initial, h)
    /\ calls' = MapRemove(calls, h)
    /\ given' = MapInsert(given, h, value)
    /\ UNCHANGED << issued, panicked, seen >>

\* Time passes between two operations (thread::sleep, or simply waiting).
Tick ==
    /\ now < MaxTime
    /\ now' = now + 1
    /\ UNCHANGED << pending, completed, lifespan, handles, issued, panicked, last,
                    initial, calls, given, seen, purged >>

Next ==
    \/ \E p \in Progresses : Insert(p)
    \/ \E uuid \in Uuids : Retrieve(uuid)
    \/ \E h \in Uuids : Progress(h)
    \/ \E h \in Uuids, value \in Values : Complete(h, value)
    \/ Tick

Spec == Init /\ [][Next]_vars

\* A Handle carries nothing but the identifier, so a pool cannot tell its own
\* handles from one that another TaskPool<P, V> issued.  Foreign is the
\* identifier of such a handle: new_v4 of the other pool, which this pool never
\* draws (Insert stops at MaxTasks identifiers, taken least first).
Foreign == MaxTasks + 1

\* The caller gets hold of a handle issued by another pool of the same type.
ForeignHandle ==
    /\ ~panicked
    /\ Foreign \notin handles
    /\ Foreign \notin DOMAIN given
    /\ handles' = handles \cup {Foreign}
    /\ last' = Idle
    /\ UNCHANGED << pending, completed, lifespan, now, issued, panicked,
                    initial, calls, given, seen, purged >>

\* insert, with the foreign handle counted among the MaxTasks tasks at play
InsertBounded(p) ==
    /\ Cardinality(issued \cup {Foreign}) < MaxTasks
    /\ Insert(p)

NextForeign ==
    \/ \E p \in Progresses : InsertBounded(p)
    \/ \E uuid \in Uuids : Retrieve(uuid)
    \/ \E h \in Uuids : Progress(h)
    \/ \E h \in Uuids, value \in Values : Complete(h, value)
    \/ Tick
    \/ ForeignHandle

SpecForeign == Init /\ [][NextForeign]_vars

\* One task with any Progress value the struct can hold, advanced MaxAdvance
\* times: the counter followed up to and past usize::MAX.
InsertAny(p) ==
    /\ issued = {}
    /\ Insert(p)

ProgressLong(h) ==
    /\ h \in DOMAIN calls
    /\ calls[h] < MaxAdvance
    /\ ProgressAny(h)

NextProgress ==
    \/ \E p \in UsizeProgresses : InsertAny(p)
    \/ \E h \in Uuids : ProgressLong(h)

SpecProgress == Init /\ [][NextProgress]_vars

\* ------------------------------------------------------------ example server
\* examples/rocket: one pool behind Arc<Mutex<..>>; every handler and every
\* worker iteration takes the lock for exactly one pool operation, so the
\* operations interleave as whole steps.

\* let total = 10;
ServerTotal == 10
\* complete(handle, Response(42))
ServerResponse == 42
\* with_lifespan(Some(Duration::from_secs(60)))
ServerLifespan == 60

\* fn rocket(): the managed pool
InitServer == InitWith(Some(ServerLifespan))

\* POST /: start_task inserts Progress { progress: 0, total } and spawns the
\* worker that owns the handle.
start_task ==
    Insert([progress |-> 0, total |-> ServerTotal])

\* The worker's loop `for _ in 0..total`: one iteration, after its sleep.  The
\* sleep is where other requests and workers run; how far the clock moves
\* meanwhile is left to Tick.
\* (variant: the loop runs one iteration short)
WorkerCompleteEarly(h) ==
    /\ h \in DOMAIN calls
    /\ calls[h] >= ServerTotal - 1
    /\ Complete(h, ServerResponse)
WorkerProgress(h) ==
    /\ h \in DOMAIN calls
    /\ calls[h] < ServerTotal
    /\ ProgressAny(h)

\* The worker after its loop: complete(handle, Response(42)).
WorkerComplete(h) ==
    /\ h \in DOMAIN calls
    /\ calls[h] = ServerTotal
    /\ Complete(h, ServerResponse)

\* GET /<uuid>: get_task, with any identifier a client may send
get_task(uuid) == Retrieve(uuid)

NextServer ==
    \/ start_task
    \/ \E h \in Uuids : WorkerProgress(h)
    \/ \E h \in Uuids : WorkerComplete(h)
    \/ \E uuid \in Uuids : get_task(uuid)
    \/ Tick

\* The tokio runtime runs every spawned worker again and again, and the mutex
\* is held for one operation at a time, so a worker that can take its next
\* step eventually takes it.
SpecServer ==
    /\ InitServer
    /\ [][NextServer]_vars
    /\ \A h \in Uuids : WF_vars(WorkerProgress(h)) /\ WF_vars(WorkerComplete(h))

\* ------------------------------------------------------------ typing

TypeOK ==
    /\ DOMAIN pending \subseteq Uuids
    /\ \A u \in DOMAIN pending : pending[u] \in UsizeProgresses
    /\ DOMAIN completed \subseteq Uuids
    /\ \A u \in DOMAIN completed :
          /\ completed[u][1] \in 0 .. MaxTime
          /\ completed[u][2] \in Values \cup {ServerResponse}
    /\ lifespan \in Lifespans \cup {Some(ServerLifespan)}
    /\ now \in 0 .. MaxTime
    /\ handles \subseteq Uuids
    /\ issued \subseteq Uuids
    /\ panicked \in BOOLEAN
    /\ purged \subseteq Uuids

\* ------------------------------------------------------------ steps

\* The pool after the step.
PoolNext == [pending |-> pending', completed |-> completed', lifespan |-> lifespan']

\* The step is a retrieve call with identifier u (no other step records a
\* retrieve in `last`; a Tick leaves `last` alone and moves the clock).
RetrieveStep(u) == last'.op = "retrieve" /\ last'.uuid = u /\ now' = now

\* The step is an insert call that returned identifier u.
InsertStep(u) == last'.op = "insert" /\ last'.uuid = u /\ now' = now

\* The step is a complete call that consumed the handle of u.
CompleteStep(u) == u \in handles /\ u \notin handles'

\* The step is a progress call with the handle of u.
ProgressCall(u) ==
    u \in DOMAIN calls /\ u \in DOMAIN calls' /\ calls'[u] = calls[u] + 1

\* p advanced n times.
RECURSIVE Advance(_, _)
Advance(p, n) == IF n = 0 THEN p ELSE Advance(ProgressStep(p), n - 1)

\* ------------------------------------------------------------ claims

\* C1: no identifier is in both pending and completed, and every identifier
\* returned by insert is in one of the two maps unless a retrieve returned its
\* Done or the purge removed it.
C1_OneMapPerTask ==
    /\ (DOMAIN pending) \cap (DOMAIN completed) = {}
    /\ \A u \in issued :
          \/ u \in DOMAIN pending
          \/ u \in DOMAIN completed
          \/ seen[u] = "D"
          \/ u \in purged

\* C1 witness: one task pending, another completed and then handed out by retrieve.
C1_Witness ==
    \E u \in DOMAIN pending : \E w \in issued :
        /\ w # u
        /\ seen[w] = "D"
        /\ w \notin DOMAIN completed

\* C2 as stated: after complete(h, r) the first retrieve of the identifier
\* returns Done(r), and every retrieve after that returns None.
C2_DoneExactlyOnce ==
    [][\A u \in DOMAIN given :
          RetrieveStep(u) =>
              last'.ret = IF seen[u] = "P" THEN Some(Done(given[u])) ELSE None]_vars

\* C2 amended: after complete(h, r), retrieve of the identifier returns Done(r),
\* with exactly the r given, unless the purge removed the entry; once the Done
\* was returned, or the entry was purged, every retrieve returns None.
C2_DoneAtMostOnce ==
    /\ [](\A u \in DOMAIN given :
            retrieve(Pool, u).ret =
                IF seen[u] = "P" /\ u \notin purged
                THEN Some(Done(given[u])) ELSE None)
    /\ [][\A u \in DOMAIN given :
            RetrieveStep(u) =>
                last'.ret = IF seen[u] = "P" /\ u \notin purged
                            THEN Some(Done(given[u])) ELSE None]_vars

\* C2 witness: a None returned for a task whose Done was returned before.
C2_Witness ==
    /\ last.op = "retrieve"
    /\ last.uuid \in DOMAIN given
    /\ seen[last.uuid] = "D"
    /\ last.ret = None

\* C3: between insert(p) and complete, retrieve returns Pending(p advanced once
\* per progress call made with the task's handle) and leaves the pool as it was.
C3_PendingVisible ==
    /\ \A u \in DOMAIN initial :
          retrieve(Pool, u) =
              [self |-> Pool, ret |-> Some(Pending(Advance(initial[u], calls[u])))]
    /\ last.op = "retrieve" /\ last.uuid \in DOMAIN initial
          => last.ret = Some(Pending(Advance(initial[last.uuid], calls[last.uuid])))

\* C3 witness: a retrieve returned the progress advanced by one progress call.
C3_Witness ==
    /\ last.op = "retrieve"
    /\ last.uuid \in DOMAIN initial
    /\ calls[last.uuid] >= 1
    /\ last.ret = Some(Pending(pending[last.uuid]))
    /\ pending[last.uuid].progress = initial[last.uuid].progress + 1

\* C4: per issued identifier the retrieves return Pending any number of times,
\* then at most one Done, then None: once a Done or a None was returned, every
\* retrieve returns None.
C4_PendingDoneNone ==
    [][\A u \in issued :
          RetrieveStep(u) /\ seen[u] # "P" => last'.ret = None]_vars

\* C4 witness: a retrieve has just returned the Done of a task.
C4_Witness ==
    /\ last.op = "retrieve"
    /\ last.uuid \in issued
    /\ last.ret # None
    /\ last.ret[1].tag = "Done"
    /\ seen[last.uuid] = "D"

\* C5 as stated: with lifespan L, when another task b completes at a time
\* (its completion timestamp) >= T + L, where T is the completion timestamp of
\* the never-retrieved task a, retrieve of a returns None from then on and
\* retrieve of b returns Done.
C5_GoneOnceLaterCompletion ==
    [][\A b \in Uuids : \A a \in DOMAIN completed :
          ( /\ CompleteStep(b)
            /\ a # b
            /\ lifespan # None
            /\ b \in DOMAIN completed'
            /\ completed'[b][1] >= completed[a][1] + lifespan[1] )
          => /\ retrieve(PoolNext, a).ret = None
             /\ retrieve(PoolNext, b).ret = Some(Done(given'[b]))]_vars

\* C5 amended: with lifespan L, when the complete call of another task b reads
\* the clock for its purge at a time >= T + L, retrieve of a returns None from
\* then on (a purged identifier stays absent) and retrieve of b returns Done.
C5_GoneOncePurgeAfterExpiry ==
    /\ [](\A u \in purged : retrieve(Pool, u).ret = None)
    /\ [][\A b \in Uuids : \A a \in DOMAIN completed :
            ( /\ CompleteStep(b)
              /\ a # b
              /\ lifespan # None
              /\ now >= completed[a][1] + lifespan[1] )
            => /\ a \in purged'
               /\ retrieve(PoolNext, a).ret = None
               /\ retrieve(PoolNext, b).ret = Some(Done(given'[b]))]_vars

\* C5 witness: with a lifespan above zero, a retrieve of a purged task returned
\* None while the task whose completion purged it is still held.
C5_Witness ==
    /\ lifespan # None
    /\ lifespan[1] > 0
    /\ last.op = "retrieve"
    /\ last.uuid \in purged
    /\ last.ret = None
    /\ \E b \in DOMAIN completed : retrieve(Pool, b).ret = Some(Done(given[b]))

\* C6: with lifespan L, the purge of a complete call keeps, unchanged, exactly
\* the completed entries of age < L (retrieve of them returns Done with their
\* result) and removes exactly those of age >= L.
C6_PurgeExactlyExpired ==
    [][\A h \in Uuids : CompleteStep(h) /\ lifespan # None =>
          \A a \in DOMAIN completed :
              IF DurationSince(now, completed[a][1]) < lifespan[1]
              THEN /\ a \in DOMAIN completed'
                   /\ completed'[a] = completed[a]
                   /\ retrieve(PoolNext, a).ret = Some(Done(given[a]))
              ELSE a \notin DOMAIN completed']_vars

\* C6 witness: with a lifespan, a task completed earlier is still held after a
\* later task completed.
C6_Witness ==
    /\ lifespan # None
    /\ \E a \in DOMAIN completed : \E b \in DOMAIN completed :
          a # b /\ retrieve(Pool, a).ret = Some(Done(given[a]))

\* C7: without a lifespan a completed entry leaves `completed` only through
\* the retrieve that returns its Done; until then retrieve would return Done
\* with its result, whatever other operations run and however much time passes.
C7_NoLifespanKeeps ==
    [][lifespan = None =>
          \A u \in DOMAIN completed :
              \/ /\ u \in DOMAIN completed'
                 /\ completed'[u] = completed[u]
                 /\ retrieve(PoolNext, u).ret = Some(Done(given[u]))
              \/ /\ RetrieveStep(u)
                 /\ last'.ret = Some(Done(given[u]))]_vars

\* C7 witness: without a lifespan, a task completed before another one, with
\* time passed in between, is still held.
C7_Witness ==
    /\ lifespan = None
    /\ \E a \in DOMAIN completed : \E b \in DOMAIN completed :
          /\ completed[a][1] < completed[b][1]
          /\ now = MaxTime

\* C8: the purge leaves `pending` as it is at every clock value, and an entry
\* of `pending` goes away only in the complete call made with its own handle;
\* until then it changes only by a progress call with that handle.
C8_PurgeSparesPending ==
    /\ [](\A t \in 0 .. MaxTime : purge_expired_tasks(Pool, t).pending = pending)
    /\ [][\A u \in DOMAIN pending :
            \/ CompleteStep(u) /\ u \notin DOMAIN pending'
            \/ /\ u \in DOMAIN pending'
               /\ pending'[u] = pending[u] \/ ProgressCall(u)]_vars

\* C8 witness: with lifespan zero, a task inserted first is still pending after
\* a task inserted later completed (and ran the purge) at the end of time.
C8_Witness ==
    /\ lifespan = Some(0)
    /\ \E u \in DOMAIN pending : \E w \in DOMAIN completed :
          u < w /\ completed[w][1] = MaxTime

\* C9: retrieve of an identifier that insert never returned, or whose Done was
\* already returned, or that was purged, returns None, leaves the pool as it
\* is and does not abort.
C9_AbsentIsNone ==
    /\ \A u \in Uuids :
          (u \notin issued \/ u \in purged \/ seen[u] = "D")
              => retrieve(Pool, u) = [self |-> Pool, ret |-> None]
    /\ last.op = "retrieve" /\ (last.uuid \notin issued \/ last.uuid \in purged)
          => last.ret = None /\ ~panicked

\* C9 witness: a retrieve of a never-issued identifier returned None while the
\* pool holds tasks.
C9_Witness ==
    /\ last.op = "retrieve"
    /\ last.uuid \notin issued
    /\ last.ret = None
    /\ DOMAIN pending # {}
    /\ DOMAIN completed # {}

C11_HandlesArePending ==
    /\ handles = DOMAIN pending
    /\ handles \cap (DOMAIN completed) = {}
    /\ \A h \in handles : ~progress(Pool, h).panic
    /\ ~panicked

\* C11 witness: progress was called with the handle of one task after another
\* task completed and was collected.
C11_Witness ==
    \E h \in handles : \E w \in issued :
        /\ calls[h] >= 1
        /\ pending[h] # initial[h]
        /\ w \notin handles
        /\ seen[w] = "D"

\* C12: progress with a handle whose identifier is not in pending aborts and
\* leaves pending and completed as they were; it never returns as if nothing
\* had happened.
C12_ProgressMissingAborts ==
    /\ [](\A u \in Uuids \ DOMAIN pending :
             progress(Pool, u) = [self |-> Pool, panic |-> TRUE])
    /\ [][(panicked' /\ ~panicked) =>
             /\ pending' = pending
             /\ completed' = completed
             /\ \E h \in handles : h \notin DOMAIN pending]_vars

\* C12 witness: progress was called with the foreign handle while the pool held
\* a pending task, and aborted.
C12_Witness ==
    /\ panicked
    /\ Foreign \in handles
    /\ Foreign \notin DOMAIN pending
    /\ pending # << >>

\* C13: complete with a handle whose identifier is not in pending fails loudly;
\* it adds no entry to completed for that identifier.
C13_CompleteMissingFails ==
    [][\A h \in handles :
          (h \notin DOMAIN pending /\ h \notin handles') =>
              (panicked' /\ completed' = completed)]_vars

\* C14: starting from (p0, total) with p0 <= total, after n progress calls the
\* stored value is min(p0 + n, total): never above total, never lower than
\* before, and still total once the cap is reached.
C14_CappedAdvance ==
    \A u \in DOMAIN pending :
        initial[u].progress <= initial[u].total =>
            /\ pending[u].total = initial[u].total
            /\ pending[u].progress = Min(initial[u].progress + calls[u], initial[u].total)

\* C15: complete purges before it inserts, so right after complete(h, r) the
\* identifier is in completed with r and not in pending, whatever the lifespan;
\* with a lifespan of zero the new entry is the only one left in completed.
C15_CompleteKeepsOwnEntry ==
    [][\A h \in Uuids :
          CompleteStep(h) =>
              /\ h \in DOMAIN completed'
              /\ completed'[h] = << now', given'[h] >>
              /\ h \notin DOMAIN pending'
              /\ (lifespan = Some(0) => DOMAIN completed' = {h})]_vars

\* C15 witness: with a lifespan of zero a complete call purged an earlier
\* entry and left its own as the only one.
C15_Witness ==
    /\ lifespan = Some(0)
    /\ purged # {}
    /\ \E h \in issued \ purged : DOMAIN completed = {h} /\ h \in DOMAIN given

\* C16: only complete purges.  A completed entry leaves the map either in a
\* complete call or by a retrieve of its own identifier that returns Done, and
\* retrieve returns Done for every completed entry however old it is: an entry
\* whose age has reached the lifespan is still delivered when no complete call
\* came after it expired.
C16_PurgeOnlyInComplete ==
    /\ [](\A u \in DOMAIN completed :
             retrieve(Pool, u).ret = Some(Done(completed[u][2])))
    /\ [][/\ \A u \in DOMAIN completed :
                u \notin DOMAIN completed' =>
                    \/ \E h \in Uuids : CompleteStep(h)
                    \/ RetrieveStep(u) /\ last'.ret = Some(Done(completed[u][2]))
          /\ purged' # purged => \E h \in Uuids : CompleteStep(h)]_vars

\* C16 witness: with a lifespan of zero and the clock moved on since the
\* completion, a retrieve returned Done for an entry that had outlived the
\* lifespan, while another task was inserted and advanced in between.
C16_Witness ==
    /\ lifespan = Some(0)
    /\ now > 0
    /\ last.op = "retrieve"
    /\ last.uuid \in DOMAIN given
    /\ last.ret = Some(Done(given[last.uuid]))
    /\ purged = {}
    /\ \E h \in handles : calls[h] >= 1

\* C17: an entry of completed is never changed in place.  Every operation
\* leaves its (timestamp, result) pair as it is; the only thing that can happen
\* to it is removal, by a retrieve of its identifier or by the purge.
C17_CompletedImmutable ==
    [][\A u \in DOMAIN completed :
          /\ u \in DOMAIN completed' => completed'[u] = completed[u]
          /\ u \notin DOMAIN completed' =>
                \/ RetrieveStep(u)
                \/ u \in purged' \ purged]_vars

\* C17 witness: an entry stayed in completed, under a lifespan, while a later
\* task was inserted, advanced and completed after it and another identifier
\* was retrieved.
C17_Witness ==
    /\ lifespan # None
    /\ \E u \in DOMAIN completed, w \in DOMAIN completed :
          /\ completed[u][1] < completed[w][1]
          /\ u < w
    /\ last.op = "retrieve"
    /\ last.uuid \notin DOMAIN completed

\* C18: the number of entries held changes only so: insert adds one; complete
\* moves one entry from pending to completed (and the purge takes out what it
\* takes out, so the total is unchanged when the purge removes nothing); a
\* retrieve returning Done takes one away; a retrieve returning Pending or None
\* and a progress call change nothing.  One task inserted, completed and
\* retrieved leaves an empty pool.
C18_SizeAccounting ==
    /\ []((\E u \in Uuids : issued = {u} /\ seen[u] = "D") =>
              get_inner_size(Pool) = 0)
    /\ [][/\ \A u \in Uuids :
                InsertStep(u) => get_inner_size(PoolNext) = get_inner_size(Pool) + 1
          /\ \A h \in Uuids :
                CompleteStep(h) =>
                    /\ Cardinality(DOMAIN pending') = Cardinality(DOMAIN pending) - 1
                    /\ Cardinality(DOMAIN completed') =
                          Cardinality(DOMAIN completed) + 1 - Cardinality(purged' \ purged)
                    /\ (purged' = purged =>
                            get_inner_size(PoolNext) = get_inner_size(Pool))
          /\ \A u \in Uuids :
                RetrieveStep(u) =>
                    get_inner_size(PoolNext) =
                        IF last'.ret # None /\ last'.ret[1].tag = "Done"
                        THEN get_inner_size(Pool) - 1
                        ELSE get_inner_size(Pool)
          /\ \A h \in Uuids :
                ProgressCall(h) => get_inner_size(PoolNext) = get_inner_size(Pool)]_vars

\* C18 witness: exactly one task was inserted, completed and then
\* retrieved, and the pool is empty.
C18_Witness ==
    /\ \E u \in Uuids : issued = {u} /\ seen[u] = "D" /\ u \in DOMAIN given
    /\ last.op = "retrieve"
    /\ last.ret # None
    /\ get_inner_size(Pool) = 0

\* C19: a progress call changes the progress value stored for its own handle
\* and nothing else: the other pending entries, the completed entries and the
\* lifespan stay as they are, so each task's progress is its initial value
\* advanced once per call made with its own handle.
C19_ProgressOwnEntryOnly ==
    /\ [](\A u \in DOMAIN pending : pending[u] = Advance(initial[u], calls[u]))
    /\ [][\A h \in Uuids :
             ProgressCall(h) =>
                 /\ DOMAIN pending' = DOMAIN pending
                 /\ pending'[h] = ProgressStep(pending[h])
                 /\ \A u \in DOMAIN pending \ {h} : pending'[u] = pending[u]
                 /\ completed' = completed
                 /\ lifespan' = lifespan]_vars

\* C19 witness: two tasks in flight, one advanced and the other not.
C19_Witness ==
    \E h \in handles, u \in handles :
        /\ h # u
        /\ calls[h] >= 1
        /\ pending[h].progress > initial[h].progress
        /\ calls[u] = 0
        /\ pending[u] = initial[u]
        /\ pending[u].progress < pending[u].total

\* C20: in the example server every started task's worker makes exactly
\* `total` progress calls and then completes: under fair scheduling every
\* started task reaches completed; the progress a poller sees is the stored
\* value, which never decreases and never exceeds total, and it equals total
\* when complete is called.
C20_ServerTaskCompletes ==
    /\ \A u \in Uuids : (u \in DOMAIN pending) ~> (u \in DOMAIN completed)
    /\ [](\A u \in DOMAIN pending :
             /\ pending[u].progress = calls[u]
             /\ pending[u].progress <= pending[u].total
             /\ retrieve(Pool, u).ret = Some(Pending(pending[u])))
    /\ [][/\ \A u \in (DOMAIN pending) \cap (DOMAIN pending') :
                pending'[u].progress >= pending[u].progress
          /\ \A h \in Uuids :
                CompleteStep(h) =>
                    /\ calls[h] = ServerTotal
                    /\ pending[h].progress = pending[h].total
                    /\ completed'[h][2] = ServerResponse]_vars

\* C20 witness: two tasks were started; one has been completed after its ten
\* progress calls while a poller saw the other one part of the way.
C20_Witness ==
    /\ \E u \in DOMAIN completed : completed[u][2] = ServerResponse
    /\ last.op = "retrieve"
    /\ last.uuid \in DOMAIN pending
    /\ last.ret = Some(Pending(pending[last.uuid]))
    /\ pending[last.uuid].progress > 0
    /\ pending[last.uuid].progress < ServerTotal

=============================================================================
